---- MODULE Spec2Model ----
(***************************************************************************)
(* A model of the hex codec of src/src/lib.rs: the encode tables, the      *)
(* decode table, the slice codec, the owned-buffer codec and the lazy      *)
(* iterator encoder BytesToHexChars.                                       *)
(*                                                                         *)
(* Bytes (u8) and chars are natural numbers (a char is its code point; a   *)
(* `u8 as char` cast keeps the number).  A slice, Vec or String is a       *)
(* sequence, 1-indexed, so the code's x[i] is x[i + 1] here.  An           *)
(* Option<T> is a sequence of length 0 (None) or 1 (Some).                 *)
(***************************************************************************)
EXTENDS Integers, Sequences, FiniteSets, TLC

\* ---------------------------------------------------------------- bounds

\* longest byte sequence handed to an encoder
MaxData == 2
\* longest input handed to a decoder directly
MaxHex == 4
\* longest output buffer handed to decode_to_slice
MaxDecOut == 3
\* longest output buffer handed to encode_to_slice / encode_to_slice_upper
MaxEncOut == 5
\* largest N of FromHex for [u8; N]
MaxN == 3
\* longest previous contents of the String handed to encode_to
MaxPrefix == 1
\* next() calls made on an iterator after it is exhausted
ExtraCalls == 2

\* bytes the encoders are run on: 0x00 and 0xff, and every nibble value
\* once as a high and once as a low nibble (0x01, 0x23, .. 0xef and
\* 0x10, 0x32, .. 0xfe)
ByteSample ==
    {0, 255} \cup {1, 35, 69, 103, 137, 171, 205, 239}
             \cup {16, 50, 84, 118, 152, 186, 220, 254}
\* bytes the decoders are run on: '0' 'B' 'F' 'a' 'f' (hex digits), 'g'
\* and 0xff (no hex digits)
CharSample == {48, 66, 70, 97, 102, 103, 255}
\* what an output buffer holds before a call
FillSample == {0, 238}
\* chars of the String handed to encode_to: ':' and 'x'
PrefixSample == {58, 120}

SeqsUpTo(S, n) == UNION {[1..k -> S] : k \in 0..n}

\* vec![b; n] / [b; n]
Repeat(b, n) == [i \in 1..n |-> b]

Min(a, b) == IF a < b THEN a ELSE b

\* ------------------------------------------------------- u8 arithmetic

\* a | b on u8
RECURSIVE BitOr(_, _)
BitOr(a, b) ==
    IF a = 0 THEN b
    ELSE IF b = 0 THEN a
    ELSE (IF a % 2 = 1 \/ b % 2 = 1 THEN 1 ELSE 0)
         + 2 * BitOr(a \div 2, b \div 2)

\* a & b on u8
RECURSIVE BitAnd(_, _)
BitAnd(a, b) ==
    IF a = 0 \/ b = 0 THEN 0
    ELSE (IF a % 2 = 1 /\ b % 2 = 1 THEN 1 ELSE 0)
         + 2 * BitAnd(a \div 2, b \div 2)

\* a << k on u8: the bits shifted past bit 7 are lost
Shl8(a, k) == (a * (2 ^ k)) % 256

\* a >> k on u8
Shr8(a, k) == a \div (2 ^ k)

\* ------------------------------------------------------------- results

None == << >>
Some(x) == << x >>

\* FromHexError and the results of the calls.  Every result is a record of
\* the same shape: kind is "Ok", an error variant, or "Panic" (an unwrap
\* of an Err); c and index are the fields of InvalidHexCharacter; value is
\* the Ok payload (a u8 for val, bytes or chars otherwise).
Ok(v) == [kind |-> "Ok", c |-> 0, index |-> 0, value |-> v]
OddLength == [kind |-> "OddLength", c |-> 0, index |-> 0, value |-> << >>]
InvalidStringLength ==
    [kind |-> "InvalidStringLength", c |-> 0, index |-> 0, value |-> << >>]
InvalidHexCharacter(ch, idx) ==
    [kind |-> "InvalidHexCharacter", c |-> ch, index |-> idx, value |-> << >>]
Panic == [kind |-> "Panic", c |-> 0, index |-> 0, value |-> << >>]

\* -------------------------------------------------------------- tables

HEX_CHARS_LOWER ==
    << 48, 49, 50, 51, 52, 53, 54, 55, 56, 57, 97, 98, 99, 100, 101, 102 >>
HEX_CHARS_UPPER ==
    << 48, 49, 50, 51, 52, 53, 54, 55, 56, 57, 65, 66, 67, 68, 69, 70 >>

\* const __: u8 = u8::MAX
u8_MAX == 255

\* a fault of DECODE_TABLE: the row of 'A'-'F' left out, so that only
\* lower-case digits decode
DECODE_TABLE_lowercase_only ==
    [b \in 1..256 |->
        IF b - 1 \in 48..57 THEN b - 1 - 48
        ELSE IF b - 1 \in 97..102 THEN b - 1 - 97 + 10
        ELSE u8_MAX]

\* static DECODE_TABLE: [u8; 256], one row per high nibble of the index;
\* DECODE_TABLE[b] of the code is DECODE_TABLE[b + 1] here
DECODE_TABLE ==
    <<
       u8_MAX, u8_MAX, u8_MAX, u8_MAX, u8_MAX, u8_MAX, u8_MAX, u8_MAX, u8_MAX, u8_MAX, u8_MAX, u8_MAX, u8_MAX, u8_MAX, u8_MAX, u8_MAX,
       u8_MAX, u8_MAX, u8_MAX, u8_MAX, u8_MAX, u8_MAX, u8_MAX, u8_MAX, u8_MAX, u8_MAX, u8_MAX, u8_MAX, u8_MAX, u8_MAX, u8_MAX, u8_MAX,
       u8_MAX, u8_MAX, u8_MAX, u8_MAX, u8_MAX, u8_MAX, u8_MAX, u8_MAX, u8_MAX, u8_MAX, u8_MAX, u8_MAX, u8_MAX, u8_MAX, u8_MAX, u8_MAX,
            0,      1,      2,      3,      4,      5,      6,      7,      8,      9, u8_MAX, u8_MAX, u8_MAX, u8_MAX, u8_MAX, u8_MAX,
       u8_MAX,     10,     11,     12,     13,     14,     15, u8_MAX, u8_MAX, u8_MAX, u8_MAX, u8_MAX, u8_MAX, u8_MAX, u8_MAX, u8_MAX,
       u8_MAX, u8_MAX, u8_MAX, u8_MAX, u8_MAX, u8_MAX, u8_MAX, u8_MAX, u8_MAX, u8_MAX, u8_MAX, u8_MAX, u8_MAX, u8_MAX, u8_MAX, u8_MAX,
       u8_MAX,     10,     11,     12,     13,     14,     15, u8_MAX, u8_MAX, u8_MAX, u8_MAX, u8_MAX, u8_MAX, u8_MAX, u8_MAX, u8_MAX,
       u8_MAX, u8_MAX, u8_MAX, u8_MAX, u8_MAX, u8_MAX, u8_MAX, u8_MAX, u8_MAX, u8_MAX, u8_MAX, u8_MAX, u8_MAX, u8_MAX, u8_MAX, u8_MAX,
       u8_MAX, u8_MAX, u8_MAX, u8_MAX, u8_MAX, u8_MAX, u8_MAX, u8_MAX, u8_MAX, u8_MAX, u8_MAX, u8_MAX, u8_MAX, u8_MAX, u8_MAX, u8_MAX,
       u8_MAX, u8_MAX, u8_MAX, u8_MAX, u8_MAX, u8_MAX, u8_MAX, u8_MAX, u8_MAX, u8_MAX, u8_MAX, u8_MAX, u8_MAX, u8_MAX, u8_MAX, u8_MAX,
       u8_MAX, u8_MAX, u8_MAX, u8_MAX, u8_MAX, u8_MAX, u8_MAX, u8_MAX, u8_MAX, u8_MAX, u8_MAX, u8_MAX, u8_MAX, u8_MAX, u8_MAX, u8_MAX,
       u8_MAX, u8_MAX, u8_MAX, u8_MAX, u8_MAX, u8_MAX, u8_MAX, u8_MAX, u8_MAX, u8_MAX, u8_MAX, u8_MAX, u8_MAX, u8_MAX, u8_MAX, u8_MAX,
       u8_MAX, u8_MAX, u8_MAX, u8_MAX, u8_MAX, u8_MAX, u8_MAX, u8_MAX, u8_MAX, u8_MAX, u8_MAX, u8_MAX, u8_MAX, u8_MAX, u8_MAX, u8_MAX,
       u8_MAX, u8_MAX, u8_MAX, u8_MAX, u8_MAX, u8_MAX, u8_MAX, u8_MAX, u8_MAX, u8_MAX, u8_MAX, u8_MAX, u8_MAX, u8_MAX, u8_MAX, u8_MAX,
       u8_MAX, u8_MAX, u8_MAX, u8_MAX, u8_MAX, u8_MAX, u8_MAX, u8_MAX, u8_MAX, u8_MAX, u8_MAX, u8_MAX, u8_MAX, u8_MAX, u8_MAX, u8_MAX,
       u8_MAX, u8_MAX, u8_MAX, u8_MAX, u8_MAX, u8_MAX, u8_MAX, u8_MAX, u8_MAX, u8_MAX, u8_MAX, u8_MAX, u8_MAX, u8_MAX, u8_MAX, u8_MAX
    >>

\* ----------------------------------------------------------- val

\* a fault of val: the high nibble is not shifted
val_noshift(bytes, idx) ==
    LET upper == DECODE_TABLE[bytes[1] + 1]
        lower == DECODE_TABLE[bytes[2] + 1]
    IN  IF upper = u8_MAX
          THEN InvalidHexCharacter(bytes[1], idx)
          ELSE IF lower = u8_MAX
                 THEN InvalidHexCharacter(bytes[2], idx + 1)
                 ELSE Ok(BitOr(upper, lower))

\* a fault of val: the second byte of the pair is checked first
val_lower_first(bytes, idx) ==
    LET upper == DECODE_TABLE[bytes[1] + 1]
        lower == DECODE_TABLE[bytes[2] + 1]
    IN  IF lower = u8_MAX
          THEN InvalidHexCharacter(bytes[2], idx + 1)
          ELSE IF upper = u8_MAX
                 THEN InvalidHexCharacter(bytes[1], idx)
                 ELSE Ok(BitOr(Shl8(upper, 4), lower))

\* fn val(bytes: &[u8], idx: usize) -> Result<u8, FromHexError>
val(bytes, idx) ==
    LET upper == DECODE_TABLE[bytes[1] + 1]
        lower == DECODE_TABLE[bytes[2] + 1]
    IN  IF upper = u8_MAX
          THEN InvalidHexCharacter(bytes[1], idx)
          ELSE IF lower = u8_MAX
                 THEN InvalidHexCharacter(bytes[2], idx + 1)
                 ELSE Ok(BitOr(Shl8(upper, 4), lower))

\* ------------------------------------------------ decode_to_slice

\* A call that writes into a caller's buffer gives [res, buf]: the returned
\* Result and the buffer as the call leaves it.  Unit is the Ok payload ().
Unit == << >>

\* the i-th chunk of data.chunks_exact(2), i from 0
Chunk(data, i) == << data[2 * i + 1], data[2 * i + 2] >>

\* a fault of the loop of decode_to_slice: the output byte of a pair is
\* cleared before the pair is validated
RECURSIVE decode_loop_clears_first(_, _, _)
decode_loop_clears_first(data, out, i) ==
    IF i >= Min(Len(data) \div 2, Len(out))
      THEN [res |-> Ok(Unit), buf |-> out]
      ELSE LET v == val(Chunk(data, i), 2 * i)
               cleared == [out EXCEPT ![i + 1] = 0]
           IN  IF v.kind # "Ok"
                 THEN [res |-> v, buf |-> cleared]
                 ELSE decode_loop_clears_first(
                          data, [cleared EXCEPT ![i + 1] = v.value], i + 1)

\* the loop of decode_to_slice from iteration i on:
\*   for (i, (data, byte)) in data.chunks_exact(2).zip(out).enumerate() {
\*       *byte = val(data, 2 * i)?;
\*   }
RECURSIVE decode_loop(_, _, _)
decode_loop(data, out, i) ==
    IF i >= Min(Len(data) \div 2, Len(out))
      THEN [res |-> Ok(Unit), buf |-> out]
      ELSE LET v == val(Chunk(data, i), 2 * i)
           IN  IF v.kind # "Ok"
                 THEN [res |-> v, buf |-> out]
                 ELSE decode_loop(data, [out EXCEPT ![i + 1] = v.value], i + 1)

\* a fault of decode_to_slice: the output length is checked before the
\* input's parity
decode_to_slice_length_first(data, out) ==
    IF Len(data) \div 2 # Len(out)
      THEN [res |-> InvalidStringLength, buf |-> out]
      ELSE IF Len(data) % 2 # 0
             THEN [res |-> OddLength, buf |-> out]
             ELSE decode_loop(data, out, 0)

\* pub fn decode_to_slice(data, out: &mut [u8]) -> Result<(), FromHexError>
decode_to_slice(data, out) ==
    IF Len(data) % 2 # 0
      THEN [res |-> OddLength, buf |-> out]
      ELSE IF Len(data) \div 2 # Len(out)
             THEN [res |-> InvalidStringLength, buf |-> out]
             ELSE decode_loop(data, out, 0)

\* impl FromHex for Vec<u8>: from_hex
from_hex_vec(hex) ==
    IF Len(hex) % 2 # 0
      THEN OddLength
      ELSE LET r == decode_to_slice(hex, Repeat(0, Len(hex) \div 2))
           IN  IF r.res.kind # "Ok" THEN r.res ELSE Ok(r.buf)

\* a fault of from_hex for [u8; N]: the buffer is sized from the input, as
\* for Vec<u8>, and N is not enforced
from_hex_array_unsized(hex, N) == from_hex_vec(hex)

\* impl<const N: usize> FromHex for [u8; N]: from_hex
from_hex_array(hex, N) ==
    LET r == decode_to_slice(hex, Repeat(0, N))
    IN  IF r.res.kind # "Ok" THEN r.res ELSE Ok(r.buf)

\* pub fn decode(data) -> Result<Vec<u8>, FromHexError>
decode(data) == from_hex_vec(data)

\* ------------------------------------------------ encode_to_slice

\* a fault of byte2hex: the low nibble's digit comes first
byte2hex_swapped(byte, table) ==
    LET high == table[Shr8(BitAnd(byte, 240), 4) + 1]
        low  == table[BitAnd(byte, 15) + 1]
    IN  << low, high >>

\* fn byte2hex(byte: u8, table: &[u8; 16]) -> (u8, u8)
byte2hex(byte, table) ==
    LET high == table[Shr8(BitAnd(byte, 240), 4) + 1]
        low  == table[BitAnd(byte, 15) + 1]
    IN  << high, low >>

\* the loop of encode_to_slice_inner from the i-th input byte on:
\*   for (byte, output) in input.iter().zip(output.chunks_exact_mut(2)) {
\*       let (high, low) = byte2hex(*byte, table);
\*       output[0] = high; output[1] = low;
\*   }
RECURSIVE encode_loop(_, _, _, _)
encode_loop(input, output, table, i) ==
    IF i >= Min(Len(input), Len(output) \div 2)
      THEN output
      ELSE LET hl == byte2hex(input[i + 1], table)
           IN  encode_loop(input,
                           [output EXCEPT ![2 * i + 1] = hl[1],
                                          ![2 * i + 2] = hl[2]],
                           table, i + 1)

\* a fault of encode_to_slice_inner: a buffer longer than needed is accepted
encode_to_slice_inner_at_least(input, output, table) ==
    IF Len(input) * 2 > Len(output)
      THEN [res |-> InvalidStringLength, buf |-> output]
      ELSE [res |-> Ok(Unit), buf |-> encode_loop(input, output, table, 0)]

\* fn encode_to_slice_inner(input, output, table) -> Result<(), FromHexError>
encode_to_slice_inner(input, output, table) ==
    IF Len(input) * 2 # Len(output)
      THEN [res |-> InvalidStringLength, buf |-> output]
      ELSE [res |-> Ok(Unit), buf |-> encode_loop(input, output, table, 0)]

\* core::str::from_utf8 / String::from_utf8 on the bytes the model meets:
\* a sequence of bytes below 0x80 is valid UTF-8 and each byte is the char
\* of the same code point.  A byte from 0x80 on is valid only inside a
\* multi-byte sequence, which no table of this crate can produce; the
\* model reports it as the Err the validation gives for a lone such byte.
from_utf8(bytes) ==
    IF \A i \in 1..Len(bytes) : bytes[i] < 128
      THEN Ok(bytes)
      ELSE [kind |-> "Utf8Error", c |-> 0, index |-> 0, value |-> << >>]

\* core::str::from_utf8_unchecked_mut: the bytes taken as they are
from_utf8_unchecked(bytes) == Ok(bytes)

\* the body shared by encode_to_slice and encode_to_slice_upper; debug is
\* cfg!(debug_assertions).  The Ok payload is the returned &mut str.
encode_to_slice_with(input, output, table, debug) ==
    LET r == encode_to_slice_inner(input, output, table)
    IN  IF r.res.kind # "Ok"
          THEN r
          ELSE IF debug
                 THEN LET u == from_utf8(r.buf)
                      IN  [res |-> IF u.kind = "Ok" THEN u ELSE Panic,
                           buf |-> r.buf]
                 ELSE [res |-> from_utf8_unchecked(r.buf), buf |-> r.buf]

\* pub fn encode_to_slice(input, output) -> Result<&mut str, FromHexError>
encode_to_slice(input, output, debug) ==
    encode_to_slice_with(input, output, HEX_CHARS_LOWER, debug)

\* pub fn encode_to_slice_upper(input, output) -> Result<&mut str, FromHexError>
encode_to_slice_upper(input, output, debug) ==
    encode_to_slice_with(input, output, HEX_CHARS_UPPER, debug)

\* the body shared by encode and encode_upper:
\*   let mut out = vec![0; data.len() * 2];
\*   encode_to_slice*(data, &mut out).unwrap();
\*   String::from_utf8(out).unwrap()
encode_with(data, table, debug) ==
    LET r == encode_to_slice_with(data, Repeat(0, Len(data) * 2), table, debug)
    IN  IF r.res.kind # "Ok"
          THEN Panic
          ELSE LET u == from_utf8(r.buf)
               IN  IF u.kind = "Ok" THEN u ELSE Panic

\* pub fn encode(data) -> String
encode(data, debug) == encode_with(data, HEX_CHARS_LOWER, debug)

\* a fault of encode_upper: the lower-case table is used
encode_upper_lowercase(data, debug) == encode_with(data, HEX_CHARS_LOWER, debug)

\* pub fn encode_upper(data) -> String
encode_upper(data, debug) == encode_with(data, HEX_CHARS_UPPER, debug)

\* ------------------------------------------------ BytesToHexChars

\* struct BytesToHexChars { inner, table, next }: inner is the part of the
\* slice that core::slice::Iter has not yet yielded.
\* BytesToHexChars::new
BytesToHexChars_new(inner, table) ==
    [inner |-> inner, table |-> table, next |-> None]

\* a fault of next: the pending char is taken from the high nibble too
BytesToHexChars_next_high_twice(self) ==
    IF self.next # None
      THEN [self |-> [self EXCEPT !.next = None], item |-> self.next]
      ELSE IF self.inner = << >>
             THEN [self |-> self, item |-> None]
             ELSE LET byte == Head(self.inner)
                      current == self.table[Shr8(byte, 4) + 1]
                  IN  [self |-> [inner |-> Tail(self.inner),
                                 table |-> self.table,
                                 next  |-> Some(self.table[Shr8(byte, 4) + 1])],
                       item |-> Some(current)]

\* Iterator::next for BytesToHexChars: [self, item], the iterator after the
\* call and the returned Option<char>
BytesToHexChars_next(self) ==
    IF self.next # None
      THEN [self |-> [self EXCEPT !.next = None], item |-> self.next]
      ELSE IF self.inner = << >>
             THEN [self |-> self, item |-> None]
             ELSE LET byte == Head(self.inner)
                      current == self.table[Shr8(byte, 4) + 1]
                  IN  [self |-> [inner |-> Tail(self.inner),
                                 table |-> self.table,
                                 next  |-> Some(self.table[BitAnd(byte, 15) + 1])],
                       item |-> Some(current)]

\* a fault of len: the pending char is not counted
BytesToHexChars_len_no_pending(self) == Len(self.inner) * 2

\* ExactSizeIterator::len for BytesToHexChars
BytesToHexChars_len(self) ==
    LET length == Len(self.inner) * 2
    IN  IF self.next # None THEN length + 1 ELSE length

\* Iterator::size_hint for BytesToHexChars
BytesToHexChars_size_hint(self) ==
    LET length == BytesToHexChars_len(self)
    IN  << length, Some(length) >>

\* String::extend(iter): every char the iterator yields is pushed, until
\* it yields None
RECURSIVE extend(_, _)
extend(s, iter) ==
    LET r == BytesToHexChars_next(iter)
    IN  IF r.item = None THEN s ELSE extend(Append(s, r.item[1]), r.self)

\* Iterator::collect into a String (FromIterator<char>): a new String,
\* extended by the iterator
collect(iter) == extend(<< >>, iter)

\* fn encode_to_iter(table, source) -> T
encode_to_iter(table, source) == collect(BytesToHexChars_new(source, table))

\* ToHex::encode_hex
encode_hex(self) == encode_to_iter(HEX_CHARS_LOWER, self)

\* ToHex::encode_hex_upper
encode_hex_upper(self) == encode_to_iter(HEX_CHARS_UPPER, self)

\* pub fn encode_to(data, s: &mut String): the String after the call
encode_to(data, s) == extend(s, BytesToHexChars_new(data, HEX_CHARS_LOWER))

\* pub fn encode_upper_to(data, s: &mut String): the String after the call
encode_upper_to(data, s) == extend(s, BytesToHexChars_new(data, HEX_CHARS_UPPER))

\* ------------------------------------------------------ the state

VARIABLES
    pc,       \* "idle": no call made; "done": a call returned; "iter": an
              \* iterator is live
    op,       \* the function called last
    data,     \* its input argument (data / input / hex / source)
    N,        \* the array length of <[u8; N]>::from_hex, 0 otherwise
    ret,      \* what it returned
    out0,     \* the caller's output buffer before the call
    out,      \* the caller's output buffer after the call
    s0,       \* the String handed to encode_to before the call
    s,        \* the same String after the call
    prev,     \* the call before the last one: [op, data]
    it0,      \* the live iterator before its last next() call
    it,       \* the live iterator
    calls,    \* the number of next() calls made on it
    item,     \* what the last next() call returned
    emitted   \* the chars the next() calls returned, in order

vars == << pc, op, data, N, ret, out0, out, s0, s, prev, it0, it, calls,
           item, emitted >>

NoCall == [op |-> "none", data |-> << >>]
NoIter == BytesToHexChars_new(<< >>, HEX_CHARS_LOWER)

Init ==
    /\ pc = "idle"
    /\ op = "none"
    /\ data = << >>
    /\ N = 0
    /\ ret = Ok(Unit)
    /\ out0 = << >>
    /\ out = << >>
    /\ s0 = << >>
    /\ s = << >>
    /\ prev = NoCall
    /\ it0 = NoIter
    /\ it = NoIter
    /\ calls = 0
    /\ item = None
    /\ emitted = << >>

ByteSeqs == SeqsUpTo(ByteSample, MaxData)
HexSeqs == SeqsUpTo(CharSample, MaxHex)
Buffers(n) == {Repeat(f, k) : f \in FillSample, k \in 0..n}
Prefixes == SeqsUpTo(PrefixSample, MaxPrefix)

\* a call that takes `d`, returns `r` and touches neither a buffer, a
\* String nor an iterator
Returns(name, d, r) ==
    /\ pc' = "done"
    /\ op' = name
    /\ data' = d
    /\ ret' = r
    /\ UNCHANGED << N, out0, out, s0, s, prev, it0, it, calls, item, emitted >>

\* a call that takes `d` and the buffer `b` and gives r = [res, buf]
Writes(name, d, b, r) ==
    /\ pc' = "done"
    /\ op' = name
    /\ data' = d
    /\ ret' = r.res
    /\ out0' = b
    /\ out' = r.buf
    /\ UNCHANGED << N, s0, s, prev, it0, it, calls, item, emitted >>

\* a call that takes `d` and the String `str` and leaves it as `after`
Appends(name, d, str, after) ==
    /\ pc' = "done"
    /\ op' = name
    /\ data' = d
    /\ ret' = Ok(Unit)
    /\ s0' = str
    /\ s' = after
    /\ UNCHANGED << N, out0, out, prev, it0, it, calls, item, emitted >>

\* hex::encode(data)
Encode ==
    /\ pc = "idle"
    /\ \E d \in ByteSeqs, debug \in BOOLEAN :
          Returns("encode", d, encode(d, debug))

\* hex::encode_upper(data)
EncodeUpper ==
    /\ pc = "idle"
    /\ \E d \in ByteSeqs, debug \in BOOLEAN :
          Returns("encode_upper", d, encode_upper(d, debug))

\* hex::encode_to_slice(input, &mut output)
EncodeToSlice ==
    /\ pc = "idle"
    /\ \E d \in ByteSeqs, b \in Buffers(MaxEncOut), debug \in BOOLEAN :
          Writes("encode_to_slice", d, b, encode_to_slice(d, b, debug))

\* hex::encode_to_slice_upper(input, &mut output)
EncodeToSliceUpper ==
    /\ pc = "idle"
    /\ \E d \in ByteSeqs, b \in Buffers(MaxEncOut), debug \in BOOLEAN :
          Writes("encode_to_slice_upper", d, b, encode_to_slice_upper(d, b, debug))

\* hex::encode_to(data, &mut s)
EncodeTo ==
    /\ pc = "idle"
    /\ \E d \in ByteSeqs, str \in Prefixes :
          Appends("encode_to", d, str, encode_to(d, str))

\* hex::encode_upper_to(data, &mut s)
EncodeUpperTo ==
    /\ pc = "idle"
    /\ \E d \in ByteSeqs, str \in Prefixes :
          Appends("encode_upper_to", d, str, encode_upper_to(d, str))

\* data.encode_hex::<String>()
EncodeHex ==
    /\ pc = "idle"
    /\ \E d \in ByteSeqs : Returns("encode_hex", d, Ok(encode_hex(d)))

\* data.encode_hex_upper::<String>()
EncodeHexUpper ==
    /\ pc = "idle"
    /\ \E d \in ByteSeqs : Returns("encode_hex_upper", d, Ok(encode_hex_upper(d)))

\* hex::decode(data)
Decode ==
    /\ pc = "idle"
    /\ \E d \in HexSeqs : Returns("decode", d, decode(d))

\* hex::decode(text), text the String an encode / encode_upper call returned
DecodeEncoded ==
    /\ pc = "done"
    /\ op \in {"encode", "encode_upper"}
    /\ ret.kind = "Ok"
    /\ pc' = "done"
    /\ op' = "decode"
    /\ data' = ret.value
    /\ ret' = decode(ret.value)
    /\ prev' = [op |-> op, data |-> data]
    /\ UNCHANGED << N, out0, out, s0, s, it0, it, calls, item, emitted >>

\* hex::decode_to_slice(data, &mut out)
DecodeToSlice ==
    /\ pc = "idle"
    /\ \E d \in HexSeqs, b \in Buffers(MaxDecOut) :
          Writes("decode_to_slice", d, b, decode_to_slice(d, b))

\* <[u8; n]>::from_hex(hex)
FromHexArray ==
    /\ pc = "idle"
    /\ \E d \in HexSeqs, n \in 0..MaxN :
          /\ pc' = "done"
          /\ op' = "from_hex_array"
          /\ data' = d
          /\ N' = n
          /\ ret' = from_hex_array(d, n)
          /\ UNCHANGED << out0, out, s0, s, prev, it0, it, calls, item, emitted >>

\* BytesToHexChars::new(source, table)
IterNew ==
    /\ pc = "idle"
    /\ \E d \in ByteSeqs, table \in {HEX_CHARS_LOWER, HEX_CHARS_UPPER} :
          /\ pc' = "iter"
          /\ op' = "new"
          /\ data' = d
          /\ it' = BytesToHexChars_new(d, table)
          /\ it0' = BytesToHexChars_new(d, table)
    /\ UNCHANGED << N, ret, out0, out, s0, s, prev, calls, item, emitted >>

\* iter.next()
IterNext ==
    /\ pc = "iter"
    /\ calls < 2 * Len(data) + ExtraCalls
    /\ LET r == BytesToHexChars_next(it)
       IN  /\ it0' = it
           /\ it' = r.self
           /\ item' = r.item
           /\ emitted' = emitted \o r.item
    /\ calls' = calls + 1
    /\ op' = "next"
    /\ UNCHANGED << pc, data, N, ret, out0, out, s0, s, prev >>

Next ==
    \/ Encode
    \/ EncodeUpper
    \/ EncodeToSlice
    \/ EncodeToSliceUpper
    \/ EncodeTo
    \/ EncodeUpperTo
    \/ EncodeHex
    \/ EncodeHexUpper
    \/ Decode
    \/ DecodeEncoded
    \/ DecodeToSlice
    \/ FromHexArray
    \/ IterNew
    \/ IterNext

Spec == Init /\ [][Next]_vars

\* =================================================================
\* The properties.  The notions the properties are stated in are defined
\* here from the ASCII ranges, not from the tables of the code.
\* =================================================================

IsDigit(c) == c \in 48..57
IsLowerHex(c) == c \in 97..102
IsUpperHex(c) == c \in 65..70
IsHexDigit(c) == IsDigit(c) \/ IsLowerHex(c) \/ IsUpperHex(c)

\* v: '0'-'9' to 0-9, 'a'-'f' and 'A'-'F' to 10-15
HexValue(c) ==
    IF IsDigit(c) THEN c - 48
    ELSE IF IsLowerHex(c) THEN c - 97 + 10
    ELSE c - 65 + 10

\* the n-th char of "0123456789abcdef" / "0123456789ABCDEF", n from 0
LowerDigit(n) == IF n < 10 THEN 48 + n ELSE 97 + (n - 10)
UpperDigit(n) == IF n < 10 THEN 48 + n ELSE 65 + (n - 10)

AllHex(h) == \A i \in 1..Len(h) : IsHexDigit(h[i])

\* the bytes a string of 2m hex digits stands for
BytesOf(h) ==
    [i \in 1..(Len(h) \div 2) |->
        HexValue(h[2 * i - 1]) * 16 + HexValue(h[2 * i])]

\* ---------------------------------------------------------------- C1

\* C1: round trip.  Decoding the String that encode(b) or encode_upper(b)
\* returned gives Ok(b): it never fails and gives back the bytes.
C1_RoundTrip ==
    (pc = "done" /\ op = "decode" /\ prev.op \in {"encode", "encode_upper"})
        => /\ ret.kind = "Ok"
           /\ ret.value = prev.data

\* a two-byte sequence with letters in its digits went through
\* encode_upper and decode
C1_Witness ==
    /\ pc = "done" /\ op = "decode" /\ prev.op = "encode_upper"
    /\ prev.data = << 171, 1 >>
    /\ data = << 65, 66, 48, 49 >>
    /\ ret = Ok(<< 171, 1 >>)

\* ---------------------------------------------------------------- C2

\* C2: encode(b) and encode_upper(b) never fail and return exactly
\* 2 * len(b) chars; char 2i is the digit of b[i] >> 4 and char 2i + 1 the
\* digit of b[i] & 0xF, from "0123456789abcdef" for encode and from
\* "0123456789ABCDEF" for encode_upper.
C2_EncodeDigits ==
    /\ (pc = "done" /\ op = "encode")
          => /\ ret.kind = "Ok"
             /\ Len(ret.value) = 2 * Len(data)
             /\ \A i \in 0..(Len(data) - 1) :
                   /\ ret.value[2 * i + 1] = LowerDigit(data[i + 1] \div 16)
                   /\ ret.value[2 * i + 2] = LowerDigit(data[i + 1] % 16)
    /\ (pc = "done" /\ op = "encode_upper")
          => /\ ret.kind = "Ok"
             /\ Len(ret.value) = 2 * Len(data)
             /\ \A i \in 0..(Len(data) - 1) :
                   /\ ret.value[2 * i + 1] = UpperDigit(data[i + 1] \div 16)
                   /\ ret.value[2 * i + 2] = UpperDigit(data[i + 1] % 16)

\* encode_upper returned "67AB" for the bytes 0x67, 0xab
C2_Witness ==
    /\ pc = "done" /\ op = "encode_upper"
    /\ data = << 103, 171 >>
    /\ ret = Ok(<< 54, 55, 65, 66 >>)

\* ---------------------------------------------------------------- C3

\* what C3 says of the decode table.  The table is a constant of the
\* program, so the property reads it once, in the initial state.
DecodeTableAsStated ==
    /\ Len(DECODE_TABLE) = 256
    /\ \A b \in 0..255 :
          DECODE_TABLE[b + 1] = IF IsHexDigit(b) THEN HexValue(b) ELSE 255
    /\ 255 \notin 0..15

\* C3: decode_to_slice(input, output) with input of even length 2m, output
\* of length m and every input byte a hex digit returns Ok and leaves
\* output[i] = (v(input[2i]) << 4) | v(input[2i + 1]) for every i < m; the
\* decode table gives v(c) for every hex digit c and the sentinel 255,
\* which is no nibble, for every other byte value 0-255.
C3_DecodeToSlice ==
    /\ (pc = "done" /\ op = "decode_to_slice"
          /\ Len(data) % 2 = 0 /\ Len(out0) * 2 = Len(data) /\ AllHex(data))
          => /\ ret = Ok(Unit)
             /\ Len(out) = Len(out0)
             /\ \A i \in 0..(Len(out) - 1) :
                   out[i + 1] = HexValue(data[2 * i + 1]) * 16
                                + HexValue(data[2 * i + 2])
    /\ (pc = "idle") => DecodeTableAsStated

\* "aF0B" was decoded into a two-byte buffer that held 0xee, 0xee
C3_Witness ==
    /\ pc = "done" /\ op = "decode_to_slice"
    /\ data = << 97, 70, 48, 66 >>
    /\ out0 = << 238, 238 >>
    /\ ret = Ok(Unit)
    /\ out = << 175, 11 >>

\* ---------------------------------------------------------------- C4

HasNonHex(h) == \E i \in 1..Len(h) : ~IsHexDigit(h[i])

\* C4: decode_to_slice checks in a fixed order.  An input of odd length
\* gives OddLength whatever the output's length and the input's bytes;
\* otherwise an output whose length is not half the input's gives
\* InvalidStringLength even when the input holds non-hex bytes; it gives
\* InvalidHexCharacter only when both length checks pass.
C4_CheckOrder ==
    (pc = "done" /\ op = "decode_to_slice")
        => /\ (Len(data) % 2 = 1) => ret = OddLength
           /\ (Len(data) % 2 = 0 /\ Len(out0) # Len(data) \div 2)
                 => ret = InvalidStringLength
           /\ (ret.kind = "InvalidHexCharacter")
                 => (Len(data) % 2 = 0 /\ Len(out0) = Len(data) \div 2)

\* an odd-length input of non-hex bytes with an output buffer of the
\* length its pairs would need was rejected as OddLength
C4_Witness ==
    /\ pc = "done" /\ op = "decode_to_slice"
    /\ data = << 103, 255, 103 >>
    /\ Len(out0) = 1
    /\ ret = OddLength

\* ---------------------------------------------------------------- C5

\* the smallest 1-based position of h that holds no hex digit
FirstNonHex(h) ==
    CHOOSE i \in 1..Len(h) :
        /\ ~IsHexDigit(h[i])
        /\ \A j \in 1..(i - 1) : IsHexDigit(h[j])

\* the decoding calls whose length checks pass
LengthsMatch ==
    /\ pc = "done"
    /\ Len(data) % 2 = 0
    /\ \/ op = "decode"
       \/ op = "decode_to_slice" /\ Len(out0) = Len(data) \div 2
       \/ op = "from_hex_array" /\ N = Len(data) \div 2

\* C5: decoding an even-length input (with a matching output length) that
\* holds a non-hex byte gives InvalidHexCharacter{c, index} with index the
\* smallest 0-based position of a non-hex byte in the whole input and c
\* the byte there; when both bytes of a pair are invalid, the first one.
C5_FirstInvalid ==
    (LengthsMatch /\ HasNonHex(data))
        => ret = InvalidHexCharacter(data[FirstNonHex(data)],
                                     FirstNonHex(data) - 1)

\* "0f" then a pair of two non-hex bytes, 0xff before 'g': the 0xff at
\* index 2 was reported
C5_Witness ==
    /\ pc = "done" /\ op = "decode"
    /\ data = << 48, 102, 255, 103 >>
    /\ ret = InvalidHexCharacter(255, 2)

\* ---------------------------------------------------------------- C6

\* C6 as stated: <[u8; N]>::from_hex fails with InvalidStringLength
\* whenever the length the hex input implies (half its length, as
\* decode_to_slice computes it) is not N, and returns the N decoded bytes
\* for an input of exactly 2N hex digits.
C6_AsStated ==
    (pc = "done" /\ op = "from_hex_array")
        => /\ (Len(data) \div 2 # N) => ret = InvalidStringLength
           /\ (Len(data) = 2 * N /\ AllHex(data)) => ret = Ok(BytesOf(data))

\* C6, amended: <[u8; N]>::from_hex fails with OddLength for every input
\* of odd length, whatever N; for an input of even length it fails with
\* InvalidStringLength if half the input's length is not N, and returns
\* the N decoded bytes for an input of exactly 2N hex digits.
C6_Amended ==
    (pc = "done" /\ op = "from_hex_array")
        => /\ (Len(data) % 2 = 1) => ret = OddLength
           /\ (Len(data) % 2 = 0 /\ Len(data) \div 2 # N)
                 => ret = InvalidStringLength
           /\ (Len(data) = 2 * N /\ AllHex(data))
                 => (ret = Ok(BytesOf(data)) /\ Len(ret.value) = N)

\* a 4-digit hex string was rejected for a 1-byte array
C6_Witness ==
    /\ pc = "done" /\ op = "from_hex_array"
    /\ data = << 97, 102, 66, 48 >>
    /\ N = 1
    /\ ret = InvalidStringLength

\* ---------------------------------------------------------------- C7

\* C7: encode_to_slice and encode_to_slice_upper succeed exactly when
\* output.len() = 2 * input.len(); for every other output length, shorter
\* or longer, they return InvalidStringLength; and no encoder returns any
\* other error.
C7_EncodeLength ==
    /\ (pc = "done" /\ op \in {"encode_to_slice", "encode_to_slice_upper"})
          => /\ (ret.kind = "Ok") <=> (Len(out0) = 2 * Len(data))
             /\ (Len(out0) # 2 * Len(data)) => ret = InvalidStringLength
    /\ (pc = "done"
          /\ op \in {"encode", "encode_upper", "encode_to_slice",
                     "encode_to_slice_upper", "encode_to", "encode_upper_to",
                     "encode_hex", "encode_hex_upper"})
          => ret.kind \in {"Ok", "InvalidStringLength"}

\* one byte was refused a three-byte buffer, which would hold its digits
C7_Witness ==
    /\ pc = "done" /\ op = "encode_to_slice"
    /\ Len(data) = 1
    /\ Len(out0) = 3
    /\ ret = InvalidStringLength

\* ---------------------------------------------------------------- C8

\* ASCII upper and lower case of a byte string
ToUpper(h) == [i \in 1..Len(h) |-> IF h[i] \in 97..122 THEN h[i] - 32 ELSE h[i]]
ToLower(h) == [i \in 1..Len(h) |-> IF h[i] \in 65..90 THEN h[i] + 32 ELSE h[i]]

\* C8: case insensitivity.  For an input h of hex digits only, decode(h),
\* decode(uppercase(h)) and decode(lowercase(h)) return the same result,
\* also when h mixes the cases char by char, inside one pair too.
C8_CaseInsensitive ==
    (pc = "done" /\ op = "decode" /\ AllHex(data))
        => /\ ret = decode(ToUpper(data))
           /\ ret = decode(ToLower(data))

\* "aF" (one pair, mixed) was decoded, and differs from both its upper and
\* lower case
C8_Witness ==
    /\ pc = "done" /\ op = "decode"
    /\ data = << 97, 70 >>
    /\ ToUpper(data) # data /\ ToLower(data) # data
    /\ ret = Ok(<< 175 >>)

\* ---------------------------------------------------------------- C9

\* the String encode_to_slice / encode_to_slice_upper writes for b into a
\* buffer of 2 * len(b) bytes
SliceText(b, upper) ==
    IF upper
      THEN encode_to_slice_upper(b, Repeat(0, 2 * Len(b)), TRUE).res.value
      ELSE encode_to_slice(b, Repeat(0, 2 * Len(b)), TRUE).res.value

\* C9: the lazy encoder agrees with the slice encoder.  The chars got by
\* draining the iterator (encode_hex / encode_hex_upper, or next() until
\* None) are the String encode_to_slice / encode_to_slice_upper writes into
\* a buffer of 2 * len(b) bytes; encode_to(b, s) / encode_upper_to(b, s)
\* leave s as its previous contents followed by encode(b) / encode_upper(b).
C9_LazyIsSlice ==
    /\ (pc = "done" /\ op = "encode_hex")
          => ret.value = SliceText(data, FALSE)
    /\ (pc = "done" /\ op = "encode_hex_upper")
          => ret.value = SliceText(data, TRUE)
    /\ (pc = "done" /\ op = "encode_to")
          => /\ s = s0 \o encode(data, TRUE).value
             /\ SubSeq(s, 1, Len(s0)) = s0
    /\ (pc = "done" /\ op = "encode_upper_to")
          => /\ s = s0 \o encode_upper(data, TRUE).value
             /\ SubSeq(s, 1, Len(s0)) = s0
    /\ (pc = "iter" /\ calls > 0 /\ item = None)
          => emitted = SliceText(data, it.table = HEX_CHARS_UPPER)

\* encode_upper_to appended "AB01" to a String that held "x"
C9_Witness ==
    /\ pc = "done" /\ op = "encode_upper_to"
    /\ data = << 171, 1 >>
    /\ s0 = << 120 >>
    /\ s = << 120, 65, 66, 48, 49 >>

\* --------------------------------------------------------------- C10

Max(a, b) == IF a > b THEN a ELSE b

\* C10: for a lazy encoder over n bytes, after k next() calls len() and
\* both bounds of size_hint are max(2n - k, 0); a pending char is buffered
\* exactly when k is odd and k < 2n; each of the first 2n calls returns a
\* char, and every later call returns None and leaves the state as it was.
C10_IterState ==
    (pc = "iter")
        => LET n == Len(data)
               k == calls
               left == Max(2 * n - k, 0)
           IN  /\ BytesToHexChars_len(it) = left
               /\ BytesToHexChars_size_hint(it) = << left, Some(left) >>
               /\ (it.next # None) <=> (k % 2 = 1 /\ k < 2 * n)
               /\ (1 <= k /\ k <= 2 * n) => (Len(item) = 1 /\ Len(emitted) = k)
               /\ (k > 2 * n) => (item = None /\ it = it0 /\ Len(emitted) = 2 * n)

\* an iterator over two bytes, three calls made: one char is pending and
\* one left
C10_Witness ==
    /\ pc = "iter"
    /\ Len(data) = 2
    /\ calls = 3
    /\ it.next # None
    /\ BytesToHexChars_len(it) = 1

\* an iterator over two bytes, called after it was exhausted
C10_WitnessExhausted ==
    /\ pc = "iter"
    /\ Len(data) = 2
    /\ calls = 6
    /\ item = None

\* --------------------------------------------------------------- C11

\* C11: what a failed decode_to_slice leaves in the caller's buffer.  With
\* OddLength or InvalidStringLength the buffer is entirely unchanged; with
\* InvalidHexCharacter at index k the bytes at positions below k / 2
\* (integer division) hold the decoded values of the pairs before the
\* failure and every byte at position k / 2 or above holds the value it
\* had before the call.
C11_FailedDecodeFrame ==
    (pc = "done" /\ op = "decode_to_slice")
        => /\ (ret.kind \in {"OddLength", "InvalidStringLength"})
                 => out = out0
           /\ (ret.kind = "InvalidHexCharacter")
                 => /\ Len(out) = Len(out0)
                    /\ \A i \in 0..(Len(out) - 1) :
                          IF i < ret.index \div 2
                            THEN out[i + 1] = HexValue(data[2 * i + 1]) * 16
                                              + HexValue(data[2 * i + 2])
                            ELSE out[i + 1] = out0[i + 1]

\* "aFg0" was decoded into a buffer that held 0xee, 0xee: the first pair
\* was written, the byte of the failed pair kept its value
C11_Witness ==
    /\ pc = "done" /\ op = "decode_to_slice"
    /\ data = << 97, 70, 103, 48 >>
    /\ out0 = << 238, 238 >>
    /\ ret = InvalidHexCharacter(103, 2)
    /\ out = << 175, 238 >>

====
